---- MODULE Spec2Model ----
(***************************************************************************)
(* A model of the mika BitTorrent tracker: the announce handler            *)
(* (BitTorrentHandler.announce, newAnnounce, makeCompactPeers), the peer   *)
(* record, and the redis backed peer store.                                *)
(*                                                                         *)
(* The handler works through the store.PeerStore interface on *model.Peer  *)
(* pointers.  The redis driver's GetPeer is a stub that panics             *)
(* (redis.go:176-178), so the handler is modelled over the in-memory swarm *)
(* index (store_peers_type: memory), whose code is not among the sources:  *)
(* its operations (Mem...) follow the store contract.  The redis driver is *)
(* modelled on its own, operation by operation (R...).                     *)
(***************************************************************************)
EXTENDS Integers, Sequences, FiniteSets, TLC

\* ------------------------------------------------------------------ bounds

\* The clock runs over 1..MaxTime.
MaxTime == 2

\* Announce requests served in one behaviour.
MaxRequests == 3

\* Width in bytes of an InfoHash and of a PeerID in the model (20 in the program).
IDBytes == 1

\* The longest list handed to makeCompactPeers, the largest limit of GetPeers.
MaxList == 2

\* AddPeer, UpdatePeer and DeletePeer calls on the redis store in one behaviour.
MaxStoreCalls == 3

\* AddTorrent, DeleteTorrent and Update calls on the torrent store in one
\* behaviour.
MaxTorrentCalls == 2

\* Announce requests served at the same time.
MaxHandlers == 2

\* ------------------------------------------------------- program constants

\* tracker_announce_interval: 30s
AnnInterval == 30

\* tracker_announce_interval_minimum: 10s
AnnIntervalMin == 10

\* tracker_reaper_interval: 90s
ReaperInterval == 90

\* h.t.MaxPeers, the limit the handler hands to GetPeers.
MaxPeers == 2

\* --------------------------------------------------------- strings, bytes

DigitChars == <<"0", "1", "2", "3", "4", "5", "6", "7", "8", "9">>

DigitVal == [c \in {DigitChars[i] : i \in 1..10} |->
               CHOOSE d \in 0..9 : DigitChars[d + 1] = c]

\* Decimal text of a natural number, as a client writes it into the query.
RECURSIVE Dec(_)
Dec(n) == IF n < 10 THEN <<DigitChars[n + 1]>>
          ELSE Dec(n \div 10) \o <<DigitChars[(n % 10) + 1]>>

RECURSIVE DigitsValue(_)
DigitsValue(s) ==
    IF s = <<>> THEN 0
    ELSE 10 * DigitsValue(SubSeq(s, 1, Len(s) - 1)) + DigitVal[s[Len(s)]]

RECURSIVE StripZeros(_)
StripZeros(s) == IF Len(s) > 1 /\ s[1] = "0" THEN StripZeros(Tail(s)) ELSE s

\* a <= b for two digit strings without leading zeros.
RECURSIVE DigitsLeq(_, _)
DigitsLeq(a, b) ==
    IF Len(a) # Len(b) THEN Len(a) < Len(b)
    ELSE IF a = <<>> THEN TRUE
    ELSE IF a[1] # b[1] THEN DigitVal[a[1]] < DigitVal[b[1]]
    ELSE DigitsLeq(Tail(a), Tail(b))

ParseErr == -1

MaxUint16Text == <<"6", "5", "5", "3", "5">>
MaxUint32Text == <<"4", "2", "9", "4", "9", "6", "7", "2", "9", "5">>
MaxUint64Text == <<"1", "8", "4", "4", "6", "7", "4", "4", "0", "7",
                   "3", "7", "0", "9", "5", "5", "1", "6", "1", "5">>

\* strconv.ParseUint(s, 10, bits): an error for the empty string, for a
\* character that is no digit (a sign included) and for a value that does not
\* fit the width.
ParseUint(s, maxText) ==
    IF s = <<>> \/ \E i \in 1..Len(s) : s[i] \notin DOMAIN DigitVal
    THEN ParseErr
    ELSE IF ~DigitsLeq(StripZeros(s), maxText) THEN ParseErr
    ELSE DigitsValue(s)

sStarted == <<"s", "t", "a", "r", "t", "e", "d">>
sCompleted == <<"c", "o", "m", "p", "l", "e", "t", "e", "d">>
sStopped == <<"s", "t", "o", "p", "p", "e", "d">>

\* copy(buf[:], s) into a zeroed fixed-width buffer.
FixedBytes(s) == [i \in 1..IDBytes |-> IF i <= Len(s) THEN s[i] ELSE 0]

PeerIDFromString(s) == FixedBytes(s)

InfoHashFromString(s) == FixedBytes(s)

\* net.IP.To4: the 4 bytes of an IPv4 address (4-byte form, or 16-byte
\* IPv4-mapped form); nil (the empty slice) for any other address.
To4(ip) ==
    IF Len(ip) = 4 THEN ip
    ELSE IF Len(ip) = 16
            /\ \A i \in 1..10 : ip[i] = 0
            /\ ip[11] = 255 /\ ip[12] = 255
         THEN SubSeq(ip, 13, 16)
    ELSE <<>>

IsIPv4(ip) == To4(ip) # <<>>

\* ------------------------------------------------------------ the values

\* Query values of info_hash and peer_id: raw bytes.
H1 == <<26>>
H2 == <<27>>
H3 == <<28>>
H4 == <<29>>
HUnknown == <<99>>

P1 == <<1>>
P2 == <<2>>
P3 == <<3>>

IPv4A == <<93, 184, 216, 34>>
IPv4B == <<8, 8, 4, 4>>
IPv6A == <<32, 1, 13, 184, 0, 0, 0, 0, 0, 0, 0, 0, 0, 0, 0, 1>>
IPLoopback == <<127, 0, 0, 1>>

\* The users of the user store: a passkey that resolves to an enabled user,
\* one that resolves to a disabled user; any other passkey is unknown.
Users == [pk \in {"pk1", "pk2"} |->
            IF pk = "pk1" THEN [UserID |-> 1, Enabled |-> TRUE]
                          ELSE [UserID |-> 2, Enabled |-> FALSE]]

\* model.Peer.  The speeds, TotalTime and Location are never assigned by the
\* handler and stay at their zero values.
NewPeer(userID, peerID, ip, port, t) ==
    [UserID |-> userID, UserPeerID |-> 0,
     PeerID |-> peerID, IP |-> ip, Port |-> port,
     SpeedUP |-> 0, SpeedDN |-> 0, SpeedUPMax |-> 0, SpeedDNMax |-> 0,
     Uploaded |-> 0, Downloaded |-> 0, Left |-> 0,
     Announces |-> 0, TotalTime |-> 0,
     AnnounceFirst |-> t, AnnounceLast |-> t,
     CreatedOn |-> t, UpdatedOn |-> t]

\* Peer.IsNew
IsNew(peer) == peer.AnnounceLast = 0

\* model.Torrent.  A multiplier is a number of tenths (10 is 1.0).
Torrent(ih, deleted, enabled, reason) ==
    [TorrentID |-> 1, ReleaseName |-> "name", InfoHash |-> ih,
     TotalCompleted |-> 0, TotalUploaded |-> 0, TotalDownloaded |-> 0,
     IsDeleted |-> deleted, IsEnabled |-> enabled, Reason |-> reason,
     MultiUp |-> 10, MultiDn |-> 10, CreatedOn |-> 1, UpdatedOn |-> 1]

\* ------------------------------------------------------------ the request

\* An HTTP announce request: the passkey of the URL path, the socket's peer
\* address, whether the raw query string parses, and the parsed query, a map
\* from the keys that are present to their values.
Has(q, key) == key \in DOMAIN q

\* Go's map read: the zero string for a key that is absent.
Param(q, key) == IF Has(q, key) THEN q[key] ELSE <<>>

\* q.Uint16, q.Uint32key, q.Uint: the value of the key parsed at the width
\* (an error when the key is absent).
QueryUint(q, key, maxText) ==
    IF ~Has(q, key) THEN ParseErr ELSE ParseUint(q[key], maxText)

getUint32Key(q, key, def) ==
    LET left == QueryUint(q, key, MaxUint32Text)
    IN IF left = ParseErr THEN def ELSE left

getUint16Key(q, key, def) ==
    LET left == QueryUint(q, key, MaxUint16Text)
    IN IF left = ParseErr THEN def ELSE left

getUintKey(q, key, def) ==
    LET left == QueryUint(q, key, MaxUint64Text)
    IN IF left = ParseErr THEN def ELSE left

\* parseAnnounceType: the event named by a query value; a regular announce
\* for the empty string and for any other text.
parseAnnounceType(t) ==
    IF t = sStarted THEN "STARTED"
    ELSE IF t = sCompleted THEN "COMPLETED"
    ELSE IF t = sStopped THEN "STOPPED"
    ELSE "ANNOUNCE"

\* Private, loopback, multicast and unspecified IPv4 addresses.
IsRoutable(ip) ==
    LET a == To4(ip)
    IN IF a = <<>> THEN ip # [i \in 1..16 |-> 0]
       ELSE ~(\/ a[1] \in {0, 10, 127}
              \/ a[1] = 192 /\ a[2] = 168
              \/ a[1] = 172 /\ a[2] \in 16..31
              \/ a[1] \in 224..239)

IPErr == <<>>

\* getIP: the socket's peer address (tracker_allow_client_ip: false), refused
\* when it is not routable (tracker_allow_non_routable: false).
getIP(req) == IF IsRoutable(req.addr) THEN req.addr ELSE IPErr

msgOk == "ok"
msgInvalidInfoHash == "invalid info_hash"
msgInvalidPeerID == "invalid peer_id"
msgInvalidPort == "invalid port"
msgMalformedRequest == "malformed request"
msgUnauthorized == "unauthorized"
msgGenericError == "internal error"

ParsePort(q) == getUint16Key(q, "port", 0)

\* Mutant: the lower limit itself is refused.
PortRejectedOffByOne(port) == port <= 1024 \/ port > 65535

\* The port check of newAnnounce.
PortRejected(port) == port < 1024 \/ port > 65535

\* The query value newAnnounce reads the event from.
EventSource(q) == Param(q, "numwant")

\* newAnnounce: the announceRequest of a query, or the error code.
newAnnounce(req) ==
    LET q == req.q
        fail(code) == [code |-> code]
    IN IF req.malformed THEN fail(msgMalformedRequest)
       ELSE IF ~Has(q, "info_hash") THEN fail(msgInvalidInfoHash)
       ELSE IF ~Has(q, "peer_id") THEN fail(msgInvalidPeerID)
       ELSE IF getIP(req) = IPErr THEN fail(msgMalformedRequest)
       ELSE IF PortRejected(ParsePort(q)) THEN fail(msgInvalidPort)
       ELSE [code |-> msgOk,
             Compact |-> TRUE,
             Corrupt |-> getUint32Key(q, "corrupt", 0),
             Downloaded |-> getUint32Key(q, "downloaded", 0),
             Event |-> parseAnnounceType(EventSource(q)),
             IP |-> getIP(req),
             InfoHash |-> InfoHashFromString(q["info_hash"]),
             Left |-> getUint32Key(q, "left", 0),
             NumWant |-> getUintKey(q, "numwant", 30),
             PeerID |-> PeerIDFromString(q["peer_id"]),
             Port |-> ParsePort(q),
             Uploaded |-> getUint32Key(q, "uploaded", 0)]

\* ------------------------------------------------ the in-memory swarm index

\* A swarm is the ordered sequence of the peers of one InfoHash.

\* GetPeer: the position of the peer in the swarm, 0 for NotFound.
MemGetPeer(sw, ih, peerID) ==
    IF \E i \in 1..Len(sw[ih]) : sw[ih][i].PeerID = peerID
    THEN CHOOSE i \in 1..Len(sw[ih]) : sw[ih][i].PeerID = peerID
    ELSE 0

\* AddPeer
MemAddPeer(sw, ih, peer) == [sw EXCEPT ![ih] = Append(@, peer)]

\* DeletePeer
MemDeletePeer(sw, ih, peer) ==
    [sw EXCEPT ![ih] = SelectSeq(@, LAMBDA x : x.PeerID # peer.PeerID)]

Min(a, b) == IF a < b THEN a ELSE b

RECURSIVE SortedSeq(_)
SortedSeq(S) ==
    IF S = {} THEN <<>>
    ELSE LET m == CHOOSE x \in S : \A y \in S : x <= y
         IN <<m>> \o SortedSeq(S \ {m})

\* GetPeers: up to limit peers of the swarm; which ones is not specified.
MemGetPeers(sw, ih, limit) ==
    LET s == sw[ih]
        n == IF limit < 0 THEN Len(s) ELSE Min(limit, Len(s))
    IN { [i \in 1..n |-> s[SortedSeq(I)[i]]] :
           I \in {J \in SUBSET (1..Len(s)) : Cardinality(J) = n} }

\* Swarm.Counts: (seeders, leechers) of a list of peers.
Counts(peers) ==
    LET seeders == Cardinality({i \in 1..Len(peers) : peers[i].Left = 0})
    IN <<seeders, Len(peers) - seeders>>

\* ---------------------------------------------------------- the response

\* Mutant: no peer is left out of the list.
SkipsPeerNever(peer, skipID) == FALSE

\* The test of makeCompactPeers that leaves a peer out of the list.
SkipsPeer(peer, skipID) == peer.PeerID = skipID

\* The peers makeCompactPeers writes an entry for, in order.
CompactEntries(peers, skipID) ==
    SelectSeq(peers, LAMBDA peer : ~SkipsPeer(peer, skipID))

\* The bytes written for one peer: peer.IP.To4(), then the port, high byte
\* first.
CompactPeer(peer) ==
    To4(peer.IP) \o <<(peer.Port \div 256) % 256, peer.Port % 256>>

RECURSIVE ConcatPeers(_)
ConcatPeers(entries) ==
    IF entries = <<>> THEN <<>>
    ELSE CompactPeer(Head(entries)) \o ConcatPeers(Tail(entries))

makeCompactPeers(peers, skipID) == ConcatPeers(CompactEntries(peers, skipID))

\* oops, responseError: a bencoded failure.
Failure(msg) ==
    [kind |-> "failure", failure |-> msg, complete |-> 0, incomplete |-> 0,
     interval |-> 0, minInterval |-> 0, peers |-> <<>>, listed |-> <<>>]

\* The announce response: the dictionary that is bencoded.  listed names the
\* peers that have an entry in peers, which the bytes themselves do not.
Response(peers, skipID) ==
    [kind |-> "ok", failure |-> "",
     complete |-> Counts(peers)[1], incomplete |-> Counts(peers)[2],
     interval |-> AnnInterval, minInterval |-> AnnIntervalMin,
     peers |-> makeCompactPeers(peers, skipID),
     listed |-> [i \in 1..Len(CompactEntries(peers, skipID)) |->
                    CompactEntries(peers, skipID)[i].PeerID]]

\* ------------------------------------------------- the redis peer store

HexChars == <<"0", "1", "2", "3", "4", "5", "6", "7", "8", "9",
              "a", "b", "c", "d", "e", "f">>

HexVal == [c \in {HexChars[i] : i \in 1..16} |->
             CHOOSE d \in 0..15 : HexChars[d + 1] = c]

HexByte(b) == <<HexChars[(b \div 16) + 1], HexChars[(b % 16) + 1]>>

\* InfoHash.String, PeerID.String: the bytes in hexadecimal.
RECURSIVE HexString(_)
HexString(bytes) ==
    IF bytes = <<>> THEN <<>> ELSE HexByte(Head(bytes)) \o HexString(Tail(bytes))

\* torrentPeerPrefix: the pattern of the keys of a torrent's peers.
torrentPeerPrefix(t) == <<"p", ":">> \o HexString(t) \o <<":", "*">>

\* peerKey: the key of one peer of a torrent.
peerKey(t, p) == <<"p", ":">> \o HexString(t) \o <<":">> \o HexString(p)

\* The pattern matching of KEYS: * stands for any text, every other character
\* of these patterns for itself.
RECURSIVE GlobMatch(_, _)
GlobMatch(pattern, text) ==
    IF pattern = <<>> THEN text = <<>>
    ELSE IF Head(pattern) = "*"
         THEN \/ GlobMatch(Tail(pattern), text)
              \/ text # <<>> /\ GlobMatch(pattern, Tail(text))
    ELSE /\ text # <<>>
         /\ Head(text) = Head(pattern)
         /\ GlobMatch(Tail(pattern), Tail(text))

\* The database maps the keys that exist to hashes, a hash its fields to
\* texts.
HSet(db, key, fields) ==
    LET old == IF key \in DOMAIN db THEN db[key] ELSE <<>>
        new == [f \in DOMAIN old \cup DOMAIN fields |->
                  IF f \in DOMAIN fields THEN fields[f] ELSE old[f]]
    IN [k \in DOMAIN db \cup {key} |-> IF k = key THEN new ELSE db[k]]

Del(db, key) == [k \in DOMAIN db \ {key} |-> db[k]]

\* HGETALL: the empty hash, and no error, for a key that does not exist.
HGetAll(db, key) == IF key \in DOMAIN db THEN db[key] ELSE <<>>

Keys(db, pattern) == {k \in DOMAIN db : GlobMatch(pattern, k)}

\* The field of a hash read into a Go map: the zero string when absent.
Field(v, name) == IF name \in DOMAIN v THEN v[name] ELSE <<>>

RECURSIVE Join(_, _)
Join(parts, sep) ==
    IF Len(parts) = 0 THEN <<>>
    ELSE IF Len(parts) = 1 THEN parts[1]
    ELSE parts[1] \o <<sep>> \o Join(Tail(parts), sep)

RECURSIVE Split(_, _)
Split(text, sep) ==
    IF \A i \in 1..Len(text) : text[i] # sep THEN <<text>>
    ELSE LET i == CHOOSE j \in 1..Len(text) :
                    text[j] = sep /\ \A k \in 1..(j - 1) : text[k] # sep
         IN <<SubSeq(text, 1, i - 1)>> \o Split(SubSeq(text, i + 1, Len(text)), sep)

\* net.IP.String: dotted decimal for an IPv4 address, groups of hexadecimal
\* digits for any other 16-byte address (written here without the shortening
\* of runs of zeros, which ParseIP reads alike), "<nil>" for no address.
IPString(ip) ==
    IF To4(ip) # <<>> THEN Join([i \in 1..4 |-> Dec(To4(ip)[i])], ".")
    ELSE IF Len(ip) = 16
         THEN Join([i \in 1..8 |-> HexByte(ip[2 * i - 1]) \o HexByte(ip[2 * i])], ":")
    ELSE <<"<", "n", "i", "l", ">">>

\* net.ParseIP: the 16-byte form of the address, nil for any other text.
ParseIP(text) ==
    LET quad == Split(text, ".")
        groups == Split(text, ":")
    IN IF /\ Len(quad) = 4
          /\ \A i \in 1..4 : ParseUint(quad[i], <<"2", "5", "5">>) # ParseErr
       THEN [i \in 1..10 |-> 0] \o <<255, 255>>
            \o [i \in 1..4 |-> ParseUint(quad[i], <<"2", "5", "5">>)]
       ELSE IF /\ Len(groups) = 8
               /\ \A i \in 1..8 : /\ Len(groups[i]) = 4
                                  /\ \A j \in 1..4 : groups[i][j] \in DOMAIN HexVal
            THEN [i \in 1..16 |->
                    LET g == groups[(i + 1) \div 2]
                        o == IF i % 2 = 1 THEN 0 ELSE 2
                    IN 16 * HexVal[g[o + 1]] + HexVal[g[o + 2]]]
       ELSE <<>>

\* util.StringToUInt32, StringToUInt16: the number of the text, or the default.
StringToUInt32(text, def) ==
    IF ParseUint(text, MaxUint32Text) = ParseErr THEN def
    ELSE ParseUint(text, MaxUint32Text)

StringToUInt16(text, def) ==
    IF ParseUint(text, MaxUint16Text) = ParseErr THEN def
    ELSE ParseUint(text, MaxUint16Text)

\* util.TimeToString and util.StringToTime: seconds as decimal text; the zero
\* time for a text that is no time.
TimeToString(t) == Dec(t)

StringToTime(text) == StringToUInt32(text, 0)

\* The errors of the stores; nil is no error.
ErrNone == "nil"
ErrDuplicate == "ErrDuplicate"
ErrNotFound == "ErrNotFound"
ErrInvalidInfoHash == "ErrInvalidInfoHash"

\* The fields AddPeer writes (all but location, which no operation here reads
\* or changes).
AddPeerFields(p) ==
    [user_peer_id |-> Dec(p.UserPeerID),
     speed_up |-> Dec(p.SpeedUP),
     speed_dn |-> Dec(p.SpeedDN),
     speed_up_max |-> Dec(p.SpeedUPMax),
     speed_dn_max |-> Dec(p.SpeedDNMax),
     total_uploaded |-> Dec(p.Uploaded),
     total_downloaded |-> Dec(p.Downloaded),
     total_left |-> Dec(p.Left),
     total_announces |-> Dec(p.Announces),
     total_time |-> Dec(p.TotalTime),
     addr_ip |-> IPString(p.IP),
     addr_port |-> Dec(p.Port),
     last_announce |-> TimeToString(p.AnnounceLast),
     first_announce |-> TimeToString(p.AnnounceFirst),
     peer_id |-> p.PeerID,
     user_id |-> Dec(p.UserID),
     created_on |-> TimeToString(p.CreatedOn),
     updated_on |-> TimeToString(p.UpdatedOn)]

\* PeerStore.AddPeer
AddPeer(db, ih, p) ==
    [db |-> HSet(db, peerKey(ih, p.PeerID), AddPeerFields(p)), err |-> ErrNone]

\* The fields UpdatePeer writes.
UpdatePeerHash(p) ==
    [speed_up |-> Dec(p.SpeedUP),
     speed_dn |-> Dec(p.SpeedDN),
     speed_up_max |-> Dec(p.SpeedUPMax),
     speed_dn_max |-> Dec(p.SpeedDNMax),
     total_uploaded |-> Dec(p.Uploaded),
     total_downloaded |-> Dec(p.Downloaded),
     total_left |-> Dec(p.Left),
     total_announces |-> Dec(p.Announces),
     total_time |-> Dec(p.TotalTime),
     last_announce |-> TimeToString(p.AnnounceLast),
     first_announce |-> TimeToString(p.AnnounceFirst),
     updated_on |-> TimeToString(p.UpdatedOn)]

\* PeerStore.UpdatePeer
UpdatePeer(db, ih, p) ==
    [db |-> HSet(db, peerKey(ih, p.PeerID), UpdatePeerHash(p)), err |-> ErrNone]

\* PeerStore.DeletePeer
DeletePeer(db, ih, p) ==
    [db |-> Del(db, peerKey(ih, p.PeerID)), err |-> ErrNone]

\* The peer GetPeers builds from the hash of one key.
PeerFromHash(v) ==
    [UserPeerID |-> StringToUInt32(Field(v, "user_peer_id"), 0),
     SpeedUP |-> StringToUInt32(Field(v, "speed_up"), 0),
     SpeedDN |-> StringToUInt32(Field(v, "speed_dn"), 0),
     SpeedUPMax |-> StringToUInt32(Field(v, "speed_dn_max"), 0),
     SpeedDNMax |-> StringToUInt32(Field(v, "speed_up_max"), 0),
     Uploaded |-> StringToUInt32(Field(v, "total_uploaded"), 0),
     Downloaded |-> StringToUInt32(Field(v, "total_downloaded"), 0),
     Left |-> StringToUInt32(Field(v, "total_left"), 0),
     Announces |-> StringToUInt32(Field(v, "total_announces"), 0),
     TotalTime |-> StringToUInt32(Field(v, "total_time"), 0),
     IP |-> ParseIP(Field(v, "addr_ip")),
     Port |-> StringToUInt16(Field(v, "addr_port"), 0),
     AnnounceLast |-> StringToTime(Field(v, "last_announce")),
     AnnounceFirst |-> StringToTime(Field(v, "first_announce")),
     PeerID |-> PeerIDFromString(Field(v, "peer_id")),
     UserID |-> StringToUInt32(Field(v, "user_id"), 0),
     CreatedOn |-> StringToTime(Field(v, "created_on")),
     UpdatedOn |-> StringToTime(Field(v, "updated_on"))]

\* findKeys: the keys KEYS returns, in an order that is not specified.
findKeys(db, pattern) ==
    LET ks == Keys(db, pattern)
    IN { order \in [1..Cardinality(ks) -> ks] :
           \A i, j \in 1..Cardinality(ks) : i # j => order[i] # order[j] }

\* The loop of GetPeers is over before key number i (from 0) is read.
ScanEnds(keys, i, limit) == i = Len(keys) \/ i = limit

\* ---------------------------------------------- the redis torrent store

\* torrentKey: the key of a torrent.
torrentKey(t) == <<"t", ":">> \o HexString(t)

\* A multiplier is a number of tenths: 10 is 1.0, 5 is 0.5, -10 is -1.
\* The text redis is sent for a float64: the shortest decimal form.
FormatFloat(x) ==
    LET m == IF x < 0 THEN -x ELSE x
        body == Dec(m \div 10)
                \o (IF m % 10 = 0 THEN <<>> ELSE <<".">> \o Dec(m % 10))
    IN IF x < 0 THEN <<"-">> \o body ELSE body

\* The text is a decimal number with at most one digit after the point.
IsFloatText(text) ==
    LET u == IF text # <<>> /\ Head(text) = "-" THEN Tail(text) ELSE text
        parts == Split(u, ".")
    IN /\ Len(parts) \in {1, 2}
       /\ ParseUint(parts[1], MaxUint16Text) # ParseErr
       /\ Len(parts) = 2 =>
             Len(parts[2]) = 1 /\ ParseUint(parts[2], MaxUint16Text) # ParseErr

\* util.StringToFloat64: the number of the text, or the default.
StringToFloat64(text, def) ==
    IF ~IsFloatText(text) THEN def
    ELSE LET neg == Head(text) = "-"
             parts == Split(IF neg THEN Tail(text) ELSE text, ".")
             m == 10 * DigitsValue(parts[1])
                  + (IF Len(parts) = 2 THEN DigitsValue(parts[2]) ELSE 0)
         IN IF neg THEN -m ELSE m

\* The text redis is sent for a bool.
FormatBool(b) == IF b THEN <<"1">> ELSE <<"0">>

\* util.StringToBool: the truth value of the text, or the default.
StringToBool(text, def) ==
    IF text \in {<<"1">>, <<"t">>, <<"T">>, <<"t", "r", "u", "e">>,
                 <<"T", "R", "U", "E">>, <<"T", "r", "u", "e">>} THEN TRUE
    ELSE IF text \in {<<"0">>, <<"f">>, <<"F">>, <<"f", "a", "l", "s", "e">>,
                      <<"F", "A", "L", "S", "E">>, <<"F", "a", "l", "s", "e">>}
         THEN FALSE
    ELSE def

MaxInt16Text == <<"3", "2", "7", "6", "7">>

\* util.StringToInt16: the number of the text, or the default (the counters
\* of the model are never negative, and a text with a sign is none of theirs).
StringToInt16(text, def) ==
    IF ParseUint(text, MaxInt16Text) = ParseErr THEN def
    ELSE ParseUint(text, MaxInt16Text)

\* A text field of a hash read into a Go map: the empty string when absent.
\* Names and reasons are kept as they are, never parsed.
TextField(v, name) == IF name \in DOMAIN v THEN v[name] ELSE ""

\* The fields AddTorrent writes.
TorrentFields(t) ==
    [torrent_id |-> Dec(t.TorrentID),
     release_name |-> t.ReleaseName,
     total_completed |-> Dec(t.TotalCompleted),
     total_downloaded |-> Dec(t.TotalDownloaded),
     total_uploaded |-> Dec(t.TotalUploaded),
     reason |-> t.Reason,
     multi_up |-> FormatFloat(t.MultiUp),
     multi_dn |-> FormatFloat(t.MultiDn),
     info_hash |-> t.InfoHash,
     is_deleted |-> FormatBool(t.IsDeleted),
     is_enabled |-> FormatBool(t.IsEnabled),
     created_on |-> TimeToString(t.CreatedOn),
     updated_on |-> TimeToString(t.UpdatedOn)]


\* TorrentStore.AddTorrent: the database it leaves and the error it returns.
AddTorrent(db, t) ==
    [db |-> HSet(db, torrentKey(t.InfoHash), TorrentFields(t)), err |-> ErrNone]

DeleteTorrentNeverDrops(db, t, dropRow) ==
    [db |-> HSet(db, torrentKey(t.InfoHash), [is_deleted |-> <<"1">>]),
     err |-> ErrNone]

\* TorrentStore.DeleteTorrent
DeleteTorrent(db, t, dropRow) ==
    IF dropRow
    THEN [db |-> Del(db, torrentKey(t.InfoHash)), err |-> ErrNone]
    ELSE [db |-> HSet(db, torrentKey(t.InfoHash), [is_deleted |-> <<"1">>]),
          err |-> ErrNone]

TorrentFromHashSwapsMultipliers(v) ==
    [TorrentID |-> StringToUInt32(Field(v, "torrent_id"), 0),
     ReleaseName |-> TextField(v, "release_name"),
     InfoHash |-> InfoHashFromString(Field(v, "info_hash")),
     TotalCompleted |-> StringToInt16(Field(v, "total_completed"), 0),
     TotalUploaded |-> StringToUInt32(Field(v, "total_uploaded"), 0),
     TotalDownloaded |-> StringToUInt32(Field(v, "total_downloaded"), 0),
     IsDeleted |-> StringToBool(Field(v, "is_deleted"), FALSE),
     IsEnabled |-> StringToBool(Field(v, "is_enabled"), FALSE),
     Reason |-> TextField(v, "reason"),
     MultiUp |-> StringToFloat64(Field(v, "multi_dn"), 10),
     MultiDn |-> StringToFloat64(Field(v, "multi_up"), 10),
     CreatedOn |-> StringToTime(Field(v, "created_on")),
     UpdatedOn |-> StringToTime(Field(v, "updated_on"))]

\* The torrent GetTorrent builds from the hash of the key.
TorrentFromHash(v) ==
    [TorrentID |-> StringToUInt32(Field(v, "torrent_id"), 0),
     ReleaseName |-> TextField(v, "release_name"),
     InfoHash |-> InfoHashFromString(Field(v, "info_hash")),
     TotalCompleted |-> StringToInt16(Field(v, "total_completed"), 0),
     TotalUploaded |-> StringToUInt32(Field(v, "total_uploaded"), 0),
     TotalDownloaded |-> StringToUInt32(Field(v, "total_downloaded"), 0),
     IsDeleted |-> StringToBool(Field(v, "is_deleted"), FALSE),
     IsEnabled |-> StringToBool(Field(v, "is_enabled"), FALSE),
     Reason |-> TextField(v, "reason"),
     MultiUp |-> StringToFloat64(Field(v, "multi_up"), 10),
     MultiDn |-> StringToFloat64(Field(v, "multi_dn"), 10),
     CreatedOn |-> StringToTime(Field(v, "created_on")),
     UpdatedOn |-> StringToTime(Field(v, "updated_on"))]

\* TorrentStore.GetTorrent: the error, and with no error the torrent.
GetTorrent(db, hash) ==
    LET v == HGetAll(db, torrentKey(hash))
    IN IF "info_hash" \notin DOMAIN v
       THEN [err |-> ErrInvalidInfoHash]
       ELSE [err |-> ErrNone, t |-> TorrentFromHash(v)]

\* The fields an update writes: those its key set names.  A multi_dn below
\* zero is written as zero.
PatchFields(patch) ==
    [k \in patch.Keys |->
       CASE k = "release_name" -> patch.ReleaseName
         [] k = "is_deleted" -> FormatBool(patch.IsDeleted)
         [] k = "is_enabled" -> FormatBool(patch.IsEnabled)
         [] k = "reason" -> patch.Reason
         [] k = "multi_up" -> FormatFloat(patch.MultiUp)
         [] k = "multi_dn" ->
              FormatFloat(IF patch.MultiDn < 0 THEN 0 ELSE patch.MultiDn)]

\* TorrentStore.Update at time t, on the hashes of this store: the fields of
\* the patch and updated_on are written to a torrent that exists.
UpdateTorrent(db, hash, patch, t) ==
    IF "info_hash" \notin DOMAIN HGetAll(db, torrentKey(hash))
    THEN [db |-> db, err |-> ErrInvalidInfoHash]
    ELSE [db |-> HSet(HSet(db, torrentKey(hash), PatchFields(patch)),
                      torrentKey(hash), [updated_on |-> TimeToString(t)]),
          err |-> ErrNone]

\* ----------------------------------------------------------- the handler

\* preFlightChecks: the user of the passkey, who must exist and be enabled.
preFlightChecks(req) ==
    req.passkey \in DOMAIN Users /\ Users[req.passkey].Enabled

\* The limit the handler asks GetPeers for.
PeerLimit(a) == MaxPeers

\* The fields the handler assigns to the peer under its lock.
UpdatePeerFields(peer, a, t) ==
    [peer EXCEPT !.Uploaded = a.Uploaded,
                 !.Downloaded = a.Downloaded,
                 !.Announces = @ + 1,
                 !.Left = a.Left,
                 !.UpdatedOn = t]

ReasonSurfacedWhenDisabled(t) == ~t.IsEnabled

\* The torrent is disabled and has a reason, which the client is sent.
ReasonSurfaced(t) == ~t.IsEnabled /\ t.Reason # ""

oopsEmptiesSwarms(sw, tors, msg) ==
    {[swarm |-> [ih \in DOMAIN sw |-> <<>>], torrents |-> tors,
      resp |-> Failure(msg), tor |-> <<>>]}

\* oops and the return that follows it: the failure is the answer, and the
\* stores stay as the request found them.
oops(sw, tors, msg) ==
    {[swarm |-> sw, torrents |-> tors, resp |-> Failure(msg), tor |-> <<>>]}

\* BitTorrentHandler.announce on the swarm index sw and the torrent store
\* tors at time t: the possible outcomes, each the stores as the request
\* leaves them, the response, and tor, the torrent GetTorrent built for the
\* request as the handler leaves it.
announce(sw, tors, t, req) ==
    LET fail(msg) == oops(sw, tors, msg)
        a == newAnnounce(req)
    IN IF ~preFlightChecks(req) THEN fail(msgUnauthorized)
       ELSE IF a.code # msgOk THEN fail(a.code)
       ELSE
         LET got == GetTorrent(tors, a.InfoHash)
         IN IF got.err # ErrNone THEN fail(msgInvalidInfoHash)
            ELSE IF got.t.IsDeleted THEN fail(msgInvalidInfoHash)
            ELSE IF ReasonSurfaced(got.t) THEN fail(got.t.Reason)
            ELSE
              LET ih == got.t.InfoHash
                  usr == Users[req.passkey]
                  sw1 == IF MemGetPeer(sw, ih, a.PeerID) # 0 THEN sw
                         ELSE MemAddPeer(sw, ih,
                                NewPeer(usr.UserID, a.PeerID, a.IP, a.Port, t))
                  i == MemGetPeer(sw1, ih, a.PeerID)
                  peer == UpdatePeerFields(sw1[ih][i], a, t)
                  sw2 == [sw1 EXCEPT ![ih][i] = peer]
                  tor1 == IF a.Event = "COMPLETED"
                          THEN [got.t EXCEPT !.TotalCompleted = @ + 1]
                          ELSE got.t
                  sw3 == IF a.Event = "STOPPED" THEN MemDeletePeer(sw2, ih, peer)
                         ELSE sw2
              IN { [swarm |-> sw3, torrents |-> tors, tor |-> tor1,
                    resp |-> Response(peers, peer.PeerID)] :
                      peers \in MemGetPeers(sw3, ih, PeerLimit(a)) }

\* ------------------------------------------------------------- the state

VARIABLES
    swarm,       \* the swarm index: InfoHash -> sequence of peers
    torrents,    \* the torrent store: key -> hash, for the keys that exist
    now,         \* the clock, in seconds
    served,      \* announce requests served so far
    pc,          \* "idle", or "responded" while a response is on its way
    req,         \* the request being answered
    resp,        \* its response
    before,      \* the swarm of the request's torrent when the request arrived
    tor,         \* the torrent the handler holds for the request, as it leaves it
    tCalls,      \* AddTorrent, DeleteTorrent and Update calls made so far
    tOp,         \* the last call on the torrent store: its name, arguments and
                 \* what it returned
    tPrev,       \* the torrent store before that call
    tDropped,    \* the InfoHashes dropped and not added since
    nonStopped,  \* per member, its creating announce plus its later announces
                 \* whose event is not stopped
    lastAt,      \* per member, the time of its last accepted announce
    cpPeers,     \* makeCompactPeers on its own: the list of peers handed to it,
    cpSkip,      \* the PeerID to skip,
    cpOut,       \* the bytes it returned,
    cpPc,        \* and "in" before, "out" after the call
    rdb,         \* the redis database: key -> hash, for the keys that exist
    rCalls,      \* AddPeer, UpdatePeer and DeletePeer calls made so far
    rPc,         \* GetPeers: "idle", "scan" inside its loop, "done" on return
    rIh,         \* its InfoHash,
    rLimit,      \* its limit,
    rKeys,       \* the keys KEYS returned to it,
    rI,          \* the number of keys it has read,
    rOut,        \* the peers it has built
    rLive,       \* the keys of its torrent that existed at any moment of the call
    rOp,         \* the last AddPeer, UpdatePeer or DeletePeer call and its error
    rPrev,       \* the database before that call
    cObjs,       \* handlers in parallel: the peer objects in memory,
    cStore,      \* the object the swarm index holds for the peer, if any,
    cRef,        \* per handler, the object its variable peer points to,
    cLock,       \* per object, the handler holding its lock, or 0,
    cPc,         \* per handler, its place in announce,
    cTmp,        \* per handler, the Announces it read for its increment,
    cResp        \* per handler, its answer

handlerVars ==
    <<swarm, torrents, now, served, pc, req, resp, before, tor, nonStopped, lastAt>>

torrentVars == <<tCalls, tOp, tPrev, tDropped>>

compactVars == <<cpPeers, cpSkip, cpOut, cpPc>>

redisVars == <<rdb, rCalls, rPc, rIh, rLimit, rKeys, rI, rOut, rLive, rOp, rPrev>>

raceVars == <<cObjs, cStore, cRef, cLock, cPc, cTmp, cResp>>

vars == <<handlerVars, torrentVars, compactVars, redisVars, raceVars>>

\* ------------------------------------------------------------ the requests

AddOpt(q, key, val) == IF val = <<>> THEN q ELSE (key :> val) @@ q

Without(q, key) == [k \in DOMAIN q \ {key} |-> q[k]]

\* A client's progress report: uploaded, downloaded, left.
Leeching == <<0, 0, 7>>
Seeding == <<5, 9, 0>>

\* The query a client sends: event and numwant are left out when empty.
Query(ih, peerID, portText, progress, event, numwant) ==
    AddOpt(AddOpt(
        ("info_hash" :> ih) @@ ("peer_id" :> peerID) @@ ("port" :> portText)
        @@ ("uploaded" :> Dec(progress[1])) @@ ("downloaded" :> Dec(progress[2]))
        @@ ("left" :> Dec(progress[3])),
        "event", event), "numwant", numwant)

Request(passkey, addr, q) ==
    [passkey |-> passkey, addr |-> addr, malformed |-> FALSE, q |-> q]

EventTexts == {<<>>, sStarted, sCompleted, sStopped}

\* The address each client connects from.
AddrOf(p) == IF p = P2 THEN IPv4B ELSE IPv4A

\* Three clients of one torrent, reporting either progress, with every event
\* and with numwant absent, a number, or a word.
SwarmRequests ==
    { Request("pk1", AddrOf(p), Query(H1, p, Dec(6881), g, e, n)) :
        p \in {P1, P2, P3}, g \in {Leeching, Seeding},
        e \in EventTexts, n \in {<<>>, Dec(1), sStopped} }

\* The first client again, from another address and port.
MovedRequests ==
    { Request("pk1", IPv4B, Query(H1, P1, Dec(1024), g, e, <<>>)) :
        g \in {Leeching, Seeding}, e \in {<<>>, sStopped} }

\* The first client completing, the event given in numwant as well, and the
\* first client on the torrent disabled without a reason and on the one
\* disabled with a reason.
OtherRequests ==
    { Request("pk1", IPv4A, Query(H1, P1, Dec(6881), Leeching, sCompleted, sCompleted)) }
    \cup
    { Request("pk1", IPv4A, Query(h, P1, Dec(6881), Leeching, e, e)) :
        h \in {H2, H4}, e \in {<<>>, sStopped} }

PortTexts ==
    { <<>>, <<"x">>, <<"-", "1">>, <<"0", "6", "8", "8", "1">> }
    \cup { Dec(n) : n \in {0, 80, 1023, 1024, 6881, 65535, 65536} }

\* One client's request in every state of repair: the passkey of an enabled,
\* a disabled and an unknown user, a routable and a loopback address, a query
\* string that does or does not parse, a torrent that is tracked, deleted,
\* disabled or unknown, a key left out, and every text of the port.
CheckedRequests ==
    { [passkey |-> pk, addr |-> a, malformed |-> m,
       q |-> IF k = "" THEN Query(ih, P1, pt, Leeching, <<>>, <<>>)
             ELSE Without(Query(ih, P1, pt, Leeching, <<>>, <<>>), k)] :
        pk \in {"pk1", "pk2", "pk0"}, a \in {IPv4A, IPLoopback},
        m \in BOOLEAN, ih \in {H1, H3, H4, HUnknown}, pt \in PortTexts,
        k \in {"", "info_hash", "peer_id", "port"} }

NoRequest == [passkey |-> "", addr |-> <<>>, malformed |-> FALSE, q |-> <<>>]

NoResponse == Failure("")

TorrentHashes == {InfoHashFromString(h) : h \in {H1, H2, H3, H4}}

\* The torrent store: a tracked torrent, one disabled without a reason, a
\* deleted one, and one that is disabled with a reason.
InitTorrents ==
    LET add(db, h, deleted, enabled, reason) ==
            AddTorrent(db, Torrent(InfoHashFromString(h), deleted, enabled, reason)).db
    IN add(add(add(add(<<>>, H1, FALSE, TRUE, ""),
                   H2, FALSE, FALSE, ""),
               H3, TRUE, TRUE, ""),
           H4, FALSE, FALSE, "trumped")

\* The torrents whose announces are accepted.
TrackedHashes == {InfoHashFromString(h) : h \in {H1, H2}}

\* The (InfoHash, PeerID) pairs that can be members of a swarm.
Members == TrackedHashes \X {PeerIDFromString(p) : p \in {P1, P2, P3}}

HandlerInit ==
    /\ swarm = [ih \in TorrentHashes |-> <<>>]
    /\ torrents = InitTorrents
    /\ now = 1
    /\ served = 0
    /\ pc = "idle"
    /\ req = NoRequest
    /\ resp = NoResponse
    /\ before = <<>>
    /\ tor = <<>>
    /\ nonStopped = [m \in Members |-> 0]
    /\ lastAt = [m \in Members |-> 0]

CompactInit ==
    /\ cpPeers = <<>>
    /\ cpSkip = PeerIDFromString(P1)
    /\ cpOut = <<>>
    /\ cpPc = "in"

NoCall == [op |-> "none"]

RedisInit ==
    /\ rdb = <<>>
    /\ rCalls = 0
    /\ rPc = "idle"
    /\ rIh = InfoHashFromString(H1)
    /\ rLimit = 0
    /\ rKeys = <<>>
    /\ rI = 0
    /\ rOut = <<>>
    /\ rLive = {}
    /\ rOp = NoCall
    /\ rPrev = <<>>

TorrentInit ==
    /\ tCalls = 0
    /\ tOp = NoCall
    /\ tPrev = <<>>
    /\ tDropped = {}

\* The announce requests served at the same time, one handler for each.
Handlers == 1..MaxHandlers

\* The peer objects there can be: the one an earlier announce left in the
\* swarm index (0), and the one each handler makes with NewPeer.
Objects == {0} \cup Handlers

RaceInit ==
    /\ cObjs = [o \in Objects |-> NewPeer(0, PeerIDFromString(P1), <<>>, 0, 0)]
    /\ cStore = <<>>
    /\ cRef = [h \in Handlers |-> <<>>]
    /\ cLock = [o \in Objects |-> 0]
    /\ cPc = [h \in Handlers |-> "idle"]
    /\ cTmp = [h \in Handlers |-> 0]
    /\ cResp = [h \in Handlers |-> ""]

Init == HandlerInit /\ TorrentInit /\ CompactInit /\ RedisInit /\ RaceInit

\* The request's member (InfoHash, PeerID), for a request that names both.
MemberOf(r) ==
    <<InfoHashFromString(Param(r.q, "info_hash")),
      PeerIDFromString(Param(r.q, "peer_id"))>>

IsMember(sw, m) == m[1] \in DOMAIN sw /\ MemGetPeer(sw, m[1], m[2]) # 0

\* The stored record of a member.
PeerOf(sw, m) == sw[m[1]][MemGetPeer(sw, m[1], m[2])]

\* The history of one member after request r was answered with swarm index sw2.
NextNonStopped(sw1, sw2, r, m, old) ==
    IF ~IsMember(sw2, m) THEN 0
    ELSE IF m # MemberOf(r) THEN old
    ELSE IF ~IsMember(sw1, m) THEN 1
    ELSE IF Param(r.q, "event") # sStopped THEN old + 1
    ELSE old

\* One announce request, answered.
Announce(r) ==
    /\ pc = "idle"
    /\ served < MaxRequests
    /\ \E out \in announce(swarm, torrents, now, r) :
         /\ swarm' = out.swarm
         /\ torrents' = out.torrents
         /\ resp' = out.resp
         /\ tor' = out.tor
         /\ nonStopped' = [m \in Members |->
               IF out.resp.kind = "ok"
               THEN NextNonStopped(swarm, out.swarm, r, m, nonStopped[m])
               ELSE nonStopped[m]]
         /\ lastAt' = [m \in Members |->
               IF ~IsMember(out.swarm, m) THEN 0
               ELSE IF out.resp.kind = "ok" /\ m = MemberOf(r) THEN now
               ELSE lastAt[m]]
    /\ before' = IF MemberOf(r)[1] \in DOMAIN swarm
                 THEN swarm[MemberOf(r)[1]] ELSE <<>>
    /\ req' = r
    /\ served' = served + 1
    /\ pc' = "responded"
    /\ UNCHANGED <<now, torrentVars, compactVars, raceVars, redisVars>>

\* The response is written and the request ends.
Deliver ==
    /\ pc = "responded"
    /\ pc' = "idle"
    /\ req' = NoRequest
    /\ resp' = NoResponse
    /\ before' = <<>>
    /\ tor' = <<>>
    /\ UNCHANGED <<swarm, torrents, now, served, nonStopped, lastAt,
                   torrentVars, compactVars, raceVars, redisVars>>

\* A second passes.
Tick ==
    /\ pc = "idle"
    /\ now < MaxTime
    /\ now' = now + 1
    /\ UNCHANGED <<swarm, torrents, served, pc, req, resp, before, tor,
                   nonStopped, lastAt, torrentVars, compactVars, raceVars, redisVars>>

AnnounceSwarm == \E r \in SwarmRequests : Announce(r)

AnnounceMoved == \E r \in MovedRequests : Announce(r)

AnnounceOther == \E r \in OtherRequests : Announce(r)

AnnounceChecked == \E r \in CheckedRequests : Announce(r)

Next == AnnounceSwarm \/ AnnounceMoved \/ AnnounceOther \/ Deliver \/ Tick

\* Three clients announcing to one torrent, one of them from two places and
\* to two disabled torrents.
Spec == Init /\ [][Next]_vars

NextValidate == AnnounceChecked \/ Deliver

\* One client whose requests are checked by the handler's validation.
SpecValidate == Init /\ [][NextValidate]_vars

\* ------------------------------------------------------------- the reaper

\* The clock of the reaper's specification runs to the last of its ticks.
ReaperHorizon == 1 + MaxTime * ReaperInterval

\* Two clients of one torrent sending regular announces.
ReaperRequests ==
    { Request("pk1", AddrOf(p), Query(H1, p, Dec(6881), Leeching, <<>>, <<>>)) :
        p \in {P1, P2} }

AnnounceReaper == \E r \in ReaperRequests : Announce(r)

\* A client waits one announce interval.
Wait ==
    /\ pc = "idle"
    /\ now + AnnInterval <= ReaperHorizon
    /\ now' = now + AnnInterval
    /\ UNCHANGED <<swarm, torrents, served, pc, req, resp, before, tor,
                   nonStopped, lastAt, torrentVars, compactVars, raceVars, redisVars>>

\* The reaper's ticker, started with the tracker, fires every ReaperInterval.
ReaperTick(t) == t > 1 /\ (t - 1) % ReaperInterval = 0

\* A peer the reaper removes at time t.
Expired(peer, t) == t - peer.AnnounceLast > ReaperInterval

\* The swarm index after the reaper walked it at time t.
Reaped(sw, t) ==
    [ih \in DOMAIN sw |-> SelectSeq(sw[ih], LAMBDA p : ~Expired(p, t))]

\* One walk of the reaper.
Reap ==
    /\ pc = "idle"
    /\ ReaperTick(now)
    /\ swarm' = Reaped(swarm, now)
    /\ nonStopped' = [m \in Members |->
          IF IsMember(swarm', m) THEN nonStopped[m] ELSE 0]
    /\ lastAt' = [m \in Members |->
          IF IsMember(swarm', m) THEN lastAt[m] ELSE 0]
    /\ UNCHANGED <<torrents, now, served, pc, req, resp, before, tor,
                   torrentVars, compactVars, raceVars, redisVars>>

NextReaper == AnnounceReaper \/ Deliver \/ Wait \/ Reap

\* Two clients announcing at the announce interval while the reaper runs.
SpecReaper == Init /\ [][NextReaper]_vars

\* ------------------------------------------------ the handlers in parallel

\* Handler h's request: the first client of the first torrent reporting
\* progress that differs from every other handler's in each number.
RaceRequest(h) ==
    Request("pk1", IPv4A, Query(H1, P1, Dec(6881), <<h, h + 1, h + 2>>, <<>>, <<>>))

\* The peer of a new client, made by NewPeer for request r at time t.
CreatedPeer(r, t) ==
    NewPeer(Users[r.passkey].UserID, newAnnounce(r).PeerID,
            newAnnounce(r).IP, newAnnounce(r).Port, t)

\* An announce of the client was served before the handlers start.
ServedBefore ==
    /\ \A h \in Handlers : cPc[h] = "idle"
    /\ cStore = <<>>
    /\ cObjs' = [cObjs EXCEPT ![0] =
          UpdatePeerFields(CreatedPeer(RaceRequest(1), now),
                           newAnnounce(RaceRequest(1)), now)]
    /\ cStore' = <<0>>
    /\ UNCHANGED <<cRef, cLock, cPc, cTmp, cResp,
                   handlerVars, torrentVars, compactVars, redisVars>>

\* h.t.Peers.GetPeer: the stored object, or an error when there is none.
HGetPeer(h) ==
    /\ cPc[h] = "idle"
    /\ cRef' = [cRef EXCEPT ![h] = cStore]
    /\ cPc' = [cPc EXCEPT ![h] = IF cStore = <<>> THEN "add" ELSE "lock"]
    /\ UNCHANGED <<cObjs, cStore, cLock, cTmp, cResp,
                   handlerVars, torrentVars, compactVars, redisVars>>

\* What AddPeer does when the index holds stored: it adds the peer when there
\* is none; for a peer that is there it fails with Duplicate or replaces it.
MemAddOutcomes(stored) ==
    IF stored = <<>> THEN {"added"} ELSE {"duplicate", "replaced"}

\* model.NewPeer and h.t.Peers.AddPeer, whose error ends the request.
HAddPeer(h) ==
    /\ cPc[h] = "add"
    /\ cObjs' = [cObjs EXCEPT ![h] = CreatedPeer(RaceRequest(h), now)]
    /\ \E out \in MemAddOutcomes(cStore) :
          IF out = "duplicate"
          THEN /\ cResp' = [cResp EXCEPT ![h] = msgGenericError]
               /\ cPc' = [cPc EXCEPT ![h] = "done"]
               /\ UNCHANGED <<cStore, cRef>>
          ELSE /\ cStore' = <<h>>
               /\ cRef' = [cRef EXCEPT ![h] = <<h>>]
               /\ cPc' = [cPc EXCEPT ![h] = "lock"]
               /\ UNCHANGED cResp
    /\ UNCHANGED <<cLock, cTmp, handlerVars, torrentVars, compactVars, redisVars>>

CanLockAlways(holder) == TRUE

\* peer.Lock() returns when no handler holds the peer's lock.
CanLock(holder) == holder = 0

\* peer.Lock()
HLock(h) ==
    /\ cPc[h] = "lock"
    /\ CanLock(cLock[cRef[h][1]])
    /\ cLock' = [cLock EXCEPT ![cRef[h][1]] = h]
    /\ cPc' = [cPc EXCEPT ![h] = "uploaded"]
    /\ UNCHANGED <<cObjs, cStore, cRef, cTmp, cResp,
                   handlerVars, torrentVars, compactVars, redisVars>>

\* The statement after the one at place.
NextPlace(place) ==
    CASE place = "uploaded" -> "downloaded"
      [] place = "downloaded" -> "read"
      [] place = "read" -> "write"
      [] place = "write" -> "left"
      [] place = "left" -> "updatedOn"
      [] place = "updatedOn" -> "unlock"

\* The peer after the statement at place, for the request values a, the
\* Announces the handler read, and the time t.
Assigned(peer, place, a, read, t) ==
    CASE place = "uploaded" -> [peer EXCEPT !.Uploaded = a.Uploaded]
      [] place = "downloaded" -> [peer EXCEPT !.Downloaded = a.Downloaded]
      [] place = "read" -> peer
      [] place = "write" -> [peer EXCEPT !.Announces = read + 1]
      [] place = "left" -> [peer EXCEPT !.Left = a.Left]
      [] place = "updatedOn" -> [peer EXCEPT !.UpdatedOn = t]

\* One of the statements between peer.Lock() and peer.Unlock(); the
\* increment peer.Announces++ is a read and a write.
HAssign(h) ==
    /\ cPc[h] \in {"uploaded", "downloaded", "read", "write", "left", "updatedOn"}
    /\ cObjs' = [cObjs EXCEPT ![cRef[h][1]] =
          Assigned(@, cPc[h], newAnnounce(RaceRequest(h)), cTmp[h], now)]
    /\ cTmp' = [cTmp EXCEPT ![h] =
          IF cPc[h] = "read" THEN cObjs[cRef[h][1]].Announces ELSE @]
    /\ cPc' = [cPc EXCEPT ![h] = NextPlace(@)]
    /\ UNCHANGED <<cStore, cRef, cLock, cResp,
                   handlerVars, torrentVars, compactVars, redisVars>>

\* peer.Unlock(), and the answer of a request without an event.
HUnlock(h) ==
    /\ cPc[h] = "unlock"
    /\ cLock' = [cLock EXCEPT ![cRef[h][1]] = 0]
    /\ cResp' = [cResp EXCEPT ![h] = msgOk]
    /\ cPc' = [cPc EXCEPT ![h] = "done"]
    /\ UNCHANGED <<cObjs, cStore, cRef, cTmp,
                   handlerVars, torrentVars, compactVars, redisVars>>

GetPeerStep == \E h \in Handlers : HGetPeer(h)

AddPeerStep == \E h \in Handlers : HAddPeer(h)

LockStep == \E h \in Handlers : HLock(h)

AssignStep == \E h \in Handlers : HAssign(h)

UnlockStep == \E h \in Handlers : HUnlock(h)

NextRace ==
    ServedBefore \/ GetPeerStep \/ AddPeerStep \/ LockStep \/ AssignStep \/ UnlockStep

\* Announces of one client served at the same time, the client new or known.
SpecRace == Init /\ [][NextRace]_vars

\* ------------------------------------------------ the torrent store alone

\* The InfoHashes of the calls: a tracked torrent, a deleted one, and one that
\* was never added.
CallHashes == {InfoHashFromString(h) : h \in {H1, H3, HUnknown}}

\* The torrents added: one as the admin API adds it with a negative download
\* multiplier, one with counters and a reason.
AddedTorrents ==
    { [Torrent(ih, FALSE, TRUE, "") EXCEPT
         !.ReleaseName = "new_name", !.MultiUp = 20, !.MultiDn = -10,
         !.CreatedOn = now, !.UpdatedOn = now] : ih \in CallHashes }
    \cup
    { [Torrent(ih, FALSE, FALSE, "reason") EXCEPT
         !.TorrentID = 2, !.TotalCompleted = 3, !.MultiDn = 5,
         !.CreatedOn = now, !.UpdatedOn = now] : ih \in CallHashes }

AllKeys ==
    {"release_name", "is_deleted", "is_enabled", "reason", "multi_up", "multi_dn"}

\* The patches: one naming every field, ones naming a single field or none,
\* and one that deletes and lowers the download multiplier below zero.
Patches ==
    { [Keys |-> ks, ReleaseName |-> "new_name", IsDeleted |-> FALSE,
       IsEnabled |-> FALSE, Reason |-> "reason", MultiUp |-> 20, MultiDn |-> 5]
        : ks \in {AllKeys, {"multi_up"}, {"reason"}, {}} }
    \cup
    { [Keys |-> ks, ReleaseName |-> "", IsDeleted |-> TRUE,
       IsEnabled |-> TRUE, Reason |-> "", MultiUp |-> 0, MultiDn |-> -10]
        : ks \in {{"is_deleted"}, {"is_deleted", "multi_dn"}} }

TorrentCall(out, call, dropped) ==
    /\ pc = "idle"
    /\ tCalls < MaxTorrentCalls
    /\ tCalls' = tCalls + 1
    /\ torrents' = out.db
    /\ tOp' = [call EXCEPT !.err = out.err]
    /\ tPrev' = torrents
    /\ tDropped' = dropped
    /\ UNCHANGED <<swarm, now, served, pc, req, resp, before, tor, nonStopped,
                   lastAt, compactVars, raceVars, redisVars>>

\* TorrentStore.AddTorrent(t)
TAddTorrent ==
    \E t \in AddedTorrents :
        TorrentCall(AddTorrent(torrents, t),
                    [op |-> "add", ih |-> t.InfoHash, t |-> t, err |-> ErrNone,
                     afterDrop |-> t.InfoHash \in tDropped],
                    tDropped \ {t.InfoHash})

\* TorrentStore.DeleteTorrent(t, dropRow)
TDeleteTorrent ==
    \E ih \in CallHashes, dropRow \in BOOLEAN :
        TorrentCall(DeleteTorrent(torrents, Torrent(ih, FALSE, TRUE, ""), dropRow),
                    [op |-> "delete", ih |-> ih, dropRow |-> dropRow,
                     err |-> ErrNone],
                    IF dropRow THEN tDropped \cup {ih} ELSE tDropped)

\* TorrentStore.Update(ih, patch)
TUpdateTorrent ==
    \E ih \in CallHashes, patch \in Patches :
        TorrentCall(UpdateTorrent(torrents, ih, patch, now),
                    [op |-> "update", ih |-> ih, patch |-> patch, at |-> now,
                     err |-> ErrNone],
                    tDropped)

\* TorrentStore.GetTorrent(hash)
TGetTorrent ==
    /\ pc = "idle"
    /\ \E ih \in CallHashes :
          tOp' = [op |-> "get", ih |-> ih, got |-> GetTorrent(torrents, ih),
                  err |-> GetTorrent(torrents, ih).err]
    /\ tPrev' = torrents
    /\ UNCHANGED <<handlerVars, tCalls, tDropped, compactVars, raceVars, redisVars>>

NextTorrents == TAddTorrent \/ TDeleteTorrent \/ TUpdateTorrent \/ TGetTorrent \/ Tick

\* The torrent store under its calls, as time passes.
SpecTorrents == Init /\ [][NextTorrents]_vars

\* ----------------------------------------------- makeCompactPeers alone

IPv4BMapped == <<0, 0, 0, 0, 0, 0, 0, 0, 0, 0, 255, 255, 8, 8, 4, 4>>

\* Peers of either PeerID at an IPv4 address in its 4-byte form, an IPv4
\* address in its 16-byte form and an IPv6 address, at two ports.
CompactInputs ==
    { NewPeer(1, PeerIDFromString(p), ip, port, 1) :
        p \in {P1, P2}, ip \in {IPv4A, IPv4BMapped, IPv6A}, port \in {1024, 6881} }

\* The caller appends a peer to the list.
CompactAppend ==
    /\ cpPc = "in"
    /\ Len(cpPeers) < MaxList
    /\ \E peer \in CompactInputs : cpPeers' = Append(cpPeers, peer)
    /\ UNCHANGED <<cpSkip, cpOut, cpPc, handlerVars, torrentVars, redisVars, raceVars>>

\* makeCompactPeers(cpPeers, skip)
CompactCall ==
    /\ cpPc = "in"
    /\ \E skip \in {PeerIDFromString(p) : p \in {P1, P2}} :
          /\ cpSkip' = skip
          /\ cpOut' = makeCompactPeers(cpPeers, skip)
    /\ cpPc' = "out"
    /\ UNCHANGED <<cpPeers, handlerVars, torrentVars, redisVars, raceVars>>

NextCompact == CompactAppend \/ CompactCall

\* makeCompactPeers applied to every list of up to MaxList peers.
SpecCompact == Init /\ [][NextCompact]_vars

\* ------------------------------------------------- the redis store alone

StoreHashes == {InfoHashFromString(h) : h \in {H1, H2}}

StorePeerIDs == {PeerIDFromString(p) : p \in {P1, P2}}

\* Each client as a leecher at one address and as a seeder at another.
StorePeers ==
    { [NewPeer(1, p, IPv4A, 6881, 1) EXCEPT
         !.Left = 7, !.SpeedUPMax = 3, !.SpeedDNMax = 4] : p \in StorePeerIDs }
    \cup
    { [NewPeer(2, p, IPv6A, 1024, 1) EXCEPT
         !.Uploaded = 5, !.Announces = 1, !.AnnounceLast = 2, !.UpdatedOn = 2]
        : p \in StorePeerIDs }

\* The keys of the torrent of the running GetPeers that have existed since
\* its call.
LiveAfter(db) ==
    IF rPc = "scan" THEN rLive \cup Keys(db, torrentPeerPrefix(rIh)) ELSE rLive

StoreCall(out, op, ih, p) ==
    /\ rCalls < MaxStoreCalls
    /\ rCalls' = rCalls + 1
    /\ rdb' = out.db
    /\ rLive' = LiveAfter(out.db)
    /\ rOp' = [op |-> op, ih |-> ih, p |-> p, err |-> out.err]
    /\ rPrev' = rdb
    /\ UNCHANGED <<rPc, rIh, rLimit, rKeys, rI, rOut, handlerVars, torrentVars, compactVars, raceVars>>

\* PeerStore.AddPeer(ih, p)
RAddPeer == \E ih \in StoreHashes, p \in StorePeers : StoreCall(AddPeer(rdb, ih, p), "add", ih, p)

\* PeerStore.UpdatePeer(ih, p)
RUpdatePeer ==
    \E ih \in StoreHashes, p \in StorePeers : StoreCall(UpdatePeer(rdb, ih, p), "update", ih, p)

\* PeerStore.DeletePeer(ih, p)
RDeletePeer ==
    \E ih \in StoreHashes, p \in StorePeers : StoreCall(DeletePeer(rdb, ih, p), "delete", ih, p)

\* PeerStore.GetPeers(ih, limit) up to the answer of KEYS.
GetPeersCall(ih, limit) ==
    /\ rPc \in {"idle", "done"}
    /\ rIh' = ih
    /\ rLimit' = limit
    /\ rKeys' \in findKeys(rdb, torrentPeerPrefix(ih))
    /\ rLive' = Keys(rdb, torrentPeerPrefix(ih))
    /\ rI' = 0
    /\ rOut' = <<>>
    /\ rPc' = "scan"
    /\ UNCHANGED <<rdb, rCalls, rOp, rPrev, handlerVars, torrentVars, compactVars, raceVars>>

\* One turn of its loop: HGETALL of the next key, and the peer built from it.
GetPeersRead ==
    /\ rPc = "scan"
    /\ ~ScanEnds(rKeys, rI, rLimit)
    /\ rOut' = Append(rOut, PeerFromHash(HGetAll(rdb, rKeys[rI + 1])))
    /\ rI' = rI + 1
    /\ UNCHANGED <<rdb, rCalls, rPc, rIh, rLimit, rKeys, rLive, rOp, rPrev,
                   handlerVars, torrentVars, compactVars, raceVars>>

\* Its return.
GetPeersReturn ==
    /\ rPc = "scan"
    /\ ScanEnds(rKeys, rI, rLimit)
    /\ rPc' = "done"
    /\ UNCHANGED <<rdb, rCalls, rIh, rLimit, rKeys, rI, rOut, rLive, rOp, rPrev,
                   handlerVars, torrentVars, compactVars, raceVars>>

GetPeersKeys == \E ih \in StoreHashes, limit \in 0..MaxList : GetPeersCall(ih, limit)

GetPeers == GetPeersKeys \/ GetPeersRead \/ GetPeersReturn

NextGetPeers == RAddPeer \/ RDeletePeer \/ GetPeers

\* GetPeers alongside the calls that add and delete peers.
SpecGetPeers == Init /\ [][NextGetPeers]_vars

NextRedis == RAddPeer \/ RUpdatePeer \/ RDeletePeer \/ GetPeers

\* The redis store under all of its peer operations.
SpecRedis == Init /\ [][NextRedis]_vars

\* GetPeers(ih, 1) of the first torrent, called again.
ScanAgain == GetPeersCall(InfoHashFromString(H1), 1)

NextScan == RAddPeer \/ ScanAgain \/ GetPeersRead \/ GetPeersReturn

\* GetPeers(ih, 1) called again and again on swarms that only grow: a call
\* that can be made is made, and a loop that has ended returns.
SpecScan ==
    /\ Init
    /\ [][NextScan]_vars
    /\ WF_vars(ScanAgain) /\ WF_vars(GetPeersReturn)

\* --------------------------------------------------------------- claims

\* A response is on its way; it is a normal announce response.
Answered == pc = "responded"

Accepted == Answered /\ resp.kind = "ok"

\* The member, event and numwant the answered request names.
Requester == MemberOf(req)

RequestEvent == Param(req.q, "event")

\* numwant as the protocol reads it: 30 when absent or no number.
RequestNumWant ==
    IF ParseUint(Param(req.q, "numwant"), MaxUint64Text) = ParseErr THEN 30
    ELSE ParseUint(Param(req.q, "numwant"), MaxUint64Text)

\* The peers GetN(ih, k) can return for some k.
Listable(ih) ==
    UNION { { l[i].PeerID : i \in 1..Len(l) } :
              l \in UNION { MemGetPeers(swarm, ih, k) : k \in 0..Len(swarm[ih]) } }

\* C1: after an accepted announce with event=stopped the peer is no member of
\* the swarm: Get returns NotFound and no GetN returns it, whatever the
\* request's numwant.
C1_StoppedPeerRemoved ==
    (Accepted /\ RequestEvent = sStopped)
        => /\ ~IsMember(swarm, Requester)
           /\ Requester[2] \notin Listable(Requester[1])

\* C2: a member's Announces counter equals the number of its non-stopped
\* announces plus the one that created it.
C2_AnnouncesCountsNonStopped ==
    \A m \in Members :
        IsMember(swarm, m) => PeerOf(swarm, m).Announces = nonStopped[m]

\* C3: a member's AnnounceLast is the time of its last accepted announce, it
\* is never new once it has announced, and on the creating announce
\* AnnounceFirst = AnnounceLast = now.
C3_AnnounceLastIsLastAnnounce ==
    \A m \in Members :
        IsMember(swarm, m) =>
            /\ PeerOf(swarm, m).AnnounceLast = lastAt[m]
            /\ ~IsNew(PeerOf(swarm, m))
            /\ (Accepted /\ m = Requester /\ PeerOf(swarm, m).Announces = 1)
                  => /\ PeerOf(swarm, m).AnnounceFirst = now
                     /\ PeerOf(swarm, m).AnnounceLast = now

\* C4: after an accepted announce that leaves the peer in the swarm, the
\* stored peer has the request's Uploaded, Downloaded and Left, and the
\* request's IP and Port.
C4_StoredPeerEqualsRequest ==
    (Accepted /\ IsMember(swarm, Requester)) =>
        LET peer == PeerOf(swarm, Requester)
            a == newAnnounce(req)
        IN /\ peer.Uploaded = a.Uploaded
           /\ peer.Downloaded = a.Downloaded
           /\ peer.Left = a.Left
           /\ peer.IP = req.addr
           /\ peer.Port = a.Port

\* C5: complete and incomplete of an accepted response count the seeders
\* (Left = 0) and the leechers (Left > 0) of the whole swarm as the announce
\* leaves it, so that they add up to the size of the swarm.
C5_CountsCoverWholeSwarm ==
    Accepted =>
        LET s == swarm[Requester[1]]
        IN /\ resp.complete = Cardinality({i \in 1..Len(s) : s[i].Left = 0})
           /\ resp.incomplete = Cardinality({i \in 1..Len(s) : s[i].Left > 0})
           /\ resp.complete + resp.incomplete = Len(s)

\* C6: the peer list of a response never has an entry for the requesting
\* peer.
C6_RequesterNotListed ==
    Answered => \A i \in 1..Len(resp.listed) : resp.listed[i] # Requester[2]

\* C6 witness: the requester is a member of a swarm that fits the limit, so
\* GetPeers returned it, and the response lists the others.
C6_Witness ==
    /\ Accepted
    /\ IsMember(swarm, Requester)
    /\ Len(swarm[Requester[1]]) = 2
    /\ Len(resp.listed) = 1
    /\ Len(resp.peers) = 6

\* C7: a response carries at most min(NumWant, MaxPeers) peers.
C7_AtMostNumWantPeers ==
    Accepted => Len(resp.listed) <= Min(RequestNumWant, MaxPeers)

\* The port of the query is missing, is no number, or is outside 1024..65535.
IsDigits(s) == s # <<>> /\ \A i \in 1..Len(s) : s[i] \in DOMAIN DigitVal

PortBad(q) ==
    \/ ~Has(q, "port")
    \/ ~IsDigits(q["port"])
    \/ Len(StripZeros(q["port"])) > 5
    \/ DigitsValue(q["port"]) \notin 1024..65535

\* The checks the handler makes before it looks at the port.
EarlierChecksPass(r) ==
    /\ r.passkey \in DOMAIN Users /\ Users[r.passkey].Enabled
    /\ ~r.malformed
    /\ Has(r.q, "info_hash") /\ Has(r.q, "peer_id")
    /\ IsRoutable(r.addr)

AllPortsInRange ==
    \A ih \in DOMAIN swarm : \A i \in 1..Len(swarm[ih]) :
        swarm[ih][i].Port \in 1024..65535

CompactIPv4Peers ==
    SelectSeq(cpPeers, LAMBDA peer : peer.PeerID # cpSkip /\ IsIPv4(peer.IP))

\* C9: the compact peers value is 6 bytes for each IPv4 peer of the list
\* other than the requester and nothing for an IPv6 peer; its i-th group of 6
\* bytes is the address and then the port, high byte first, of the i-th of
\* those IPv4 peers.
C9_CompactPeersSixBytesEach ==
    cpPc = "out" =>
        /\ Len(cpOut) = 6 * Len(CompactIPv4Peers)
        /\ \A i \in 1..Len(CompactIPv4Peers) :
              /\ SubSeq(cpOut, 6 * i - 5, 6 * i - 2) = To4(CompactIPv4Peers[i].IP)
              /\ 256 * cpOut[6 * i - 1] + cpOut[6 * i] = CompactIPv4Peers[i].Port

\* C8: GetPeers(ih, k) returns at most k peers, and each of them is a member
\* of the swarm of ih: the peer of a key of ih that existed during the call.
C8_GetPeersReturnsMembers ==
    rPc = "done" =>
        /\ Len(rOut) <= rLimit
        /\ \A i \in 1..Len(rOut) :
              \E p \in StorePeerIDs :
                  /\ rOut[i].PeerID = p
                  /\ peerKey(rIh, p) \in rLive

\* The torrent of ih exists in the store db.
TorrentExists(db, ih) == "info_hash" \in DOMAIN HGetAll(db, torrentKey(ih))

\* The torrent of ih as the store db holds it.
StoredTorrent(db, ih) == TorrentFromHash(HGetAll(db, torrentKey(ih)))

\* The keys of db other than that of ih hold what they hold in db2.
OthersKept(db, db2, ih) ==
    /\ DOMAIN db \ {torrentKey(ih)} = DOMAIN db2 \ {torrentKey(ih)}
    /\ \A k \in DOMAIN db \ {torrentKey(ih)} : db[k] = db2[k]

\* C11: GetTorrent fails with InvalidInfoHash for a torrent that is not in the
\* store or is soft-deleted, and succeeds only for a stored torrent that is not
\* deleted.
C11_GetFailsUnlessLive ==
    tOp.op = "get" =>
        IF TorrentExists(torrents, tOp.ih) /\ ~StoredTorrent(torrents, tOp.ih).IsDeleted
        THEN tOp.err = ErrNone
        ELSE tOp.err = ErrInvalidInfoHash

\* C12: AddTorrent of an InfoHash that exists fails with Duplicate and leaves
\* the store as it was.
C12_AddDuplicateRejected ==
    tOp.op = "add" /\ TorrentExists(tPrev, tOp.ih) =>
        /\ tOp.err = ErrDuplicate
        /\ torrents = tPrev

\* C13: a torrent added with MultiDn < 0 is read back with MultiDn = 0, with
\* MultiUp and a MultiDn >= 0 as written, and no stored torrent has
\* MultiDn < 0.
C13_MultiDnClamped ==
    /\ tOp.op = "add" =>
          /\ GetTorrent(torrents, tOp.ih).err = ErrNone
          /\ StoredTorrent(torrents, tOp.ih).MultiUp = tOp.t.MultiUp
          /\ StoredTorrent(torrents, tOp.ih).MultiDn =
                 IF tOp.t.MultiDn < 0 THEN 0 ELSE tOp.t.MultiDn
    /\ \A k \in DOMAIN torrents : TorrentFromHash(torrents[k]).MultiDn >= 0

\* The value a patch carries for a field of the torrent.
PatchValue(patch, k) ==
    CASE k = "release_name" -> patch.ReleaseName
      [] k = "is_deleted" -> patch.IsDeleted
      [] k = "is_enabled" -> patch.IsEnabled
      [] k = "reason" -> patch.Reason
      [] k = "multi_up" -> patch.MultiUp
      [] k = "multi_dn" -> patch.MultiDn

\* The field of the torrent a key of a patch names.
Patched(t, k) ==
    CASE k = "release_name" -> t.ReleaseName
      [] k = "is_deleted" -> t.IsDeleted
      [] k = "is_enabled" -> t.IsEnabled
      [] k = "reason" -> t.Reason
      [] k = "multi_up" -> t.MultiUp
      [] k = "multi_dn" -> t.MultiDn

\* The fields of a torrent no patch names, UpdatedOn apart.
Unpatched(t) ==
    <<t.TorrentID, t.InfoHash, t.TotalCompleted, t.TotalUploaded,
      t.TotalDownloaded, t.CreatedOn>>

Updated == tOp.op = "update" /\ tOp.err = ErrNone

C15_DeleteSoftOrDrop ==
    /\ tOp.op = "delete" /\ ~tOp.dropRow /\ TorrentExists(tPrev, tOp.ih) =>
          /\ TorrentExists(torrents, tOp.ih)
          /\ StoredTorrent(torrents, tOp.ih) =
                 [StoredTorrent(tPrev, tOp.ih) EXCEPT !.IsDeleted = TRUE]
          /\ OthersKept(torrents, tPrev, tOp.ih)
    /\ tOp.op = "delete" /\ tOp.dropRow =>
          /\ torrentKey(tOp.ih) \notin DOMAIN torrents
          /\ OthersKept(torrents, tPrev, tOp.ih)
    /\ tOp.op = "add" /\ tOp.afterDrop =>
          /\ tOp.err = ErrNone
          /\ GetTorrent(torrents, tOp.ih) = [err |-> ErrNone, t |-> tOp.t]

\* A stored torrent was dropped and added again with other values.
C15_Witness ==
    /\ tOp.op = "add"
    /\ tOp.afterDrop
    /\ tOp.ih = InfoHashFromString(H1)
    /\ TorrentExists(tPrev, tOp.ih) = FALSE
    /\ StoredTorrent(torrents, tOp.ih).ReleaseName = "new_name"

\* The call before was for a peer whose key was, or was not, in the database.
WasMember == peerKey(rOp.ih, rOp.p.PeerID) \in DOMAIN rPrev

\* The keys of the swarm of ih in the database db.
SwarmKeys(db, ih) == Keys(db, torrentPeerPrefix(ih))

\* C16: AddPeer of a member fails with Duplicate and leaves its record as it
\* was, and a swarm holds at most one record per PeerID.
C16_AddPeerDuplicateRejected ==
    /\ rOp.op = "add" /\ WasMember =>
          /\ rOp.err = ErrDuplicate
          /\ rdb = rPrev
    /\ \A ih \in StoreHashes :
          /\ SwarmKeys(rdb, ih) \subseteq {peerKey(ih, p) : p \in StorePeerIDs}
          /\ Cardinality(SwarmKeys(rdb, ih)) <= Cardinality(StorePeerIDs)

\* C17: UpdatePeer of a peer that is no member returns NotFound and creates no
\* membership: the swarm GetPeers reads is the one before the call.
C17_UpdatePeerOfAbsentRejected ==
    rOp.op = "update" /\ ~WasMember =>
        /\ rOp.err = ErrNotFound
        /\ SwarmKeys(rdb, rOp.ih) = SwarmKeys(rPrev, rOp.ih)

\* C18: DeletePeer of a peer that is no member, as a second DeletePeer is,
\* returns NotFound and leaves the swarm as it was.
C18_DeletePeerIdempotent ==
    rOp.op = "delete" /\ ~WasMember =>
        /\ rOp.err = ErrNotFound
        /\ rdb = rPrev

\* An announce request is answered in this step.
AnnounceStep == pc = "idle" /\ pc' = "responded"

\* The request passes the checks made before the torrent's state is looked
\* at, and its torrent is stored and not deleted.
Resolves(r) ==
    /\ preFlightChecks(r)
    /\ newAnnounce(r).code = msgOk
    /\ TorrentExists(torrents, newAnnounce(r).InfoHash)
    /\ ~StoredTorrent(torrents, newAnnounce(r).InfoHash).IsDeleted

\* C19: an accepted announce with event=completed increases the stored
\* TotalCompleted of its torrent, which later announces read, by one.
C19_CompletedIncrementsTotal ==
    [][ AnnounceStep /\ resp'.kind = "ok" /\ Param(req'.q, "event") = sCompleted =>
          StoredTorrent(torrents', MemberOf(req')[1]).TotalCompleted
              = StoredTorrent(torrents, MemberOf(req')[1]).TotalCompleted + 1 ]_vars

\* The torrent store with the torrent of ih enabled.
WithEnabled(db, ih) == HSet(db, torrentKey(ih), [is_enabled |-> FormatBool(TRUE)])

\* C20: an announce to a torrent that is disabled with a reason fails with
\* that reason and leaves every swarm as it was; an announce to a torrent
\* that is disabled without a reason is answered, and changes the swarm, as
\* it would be were the torrent enabled.
C20_DisabledWithReasonFails ==
    [][ AnnounceStep /\ Resolves(req') =>
          LET t == StoredTorrent(torrents, MemberOf(req')[1])
          IN /\ ~t.IsEnabled /\ t.Reason # "" =>
                   /\ resp'.kind = "failure"
                   /\ resp'.failure = t.Reason
                   /\ swarm' = swarm
             /\ ~t.IsEnabled /\ t.Reason = "" =>
                   \E out \in announce(swarm, WithEnabled(torrents, t.InfoHash),
                                       now, req') :
                       /\ out.resp = resp'
                       /\ out.swarm = swarm'
                       /\ resp'.kind = "ok" ]_vars

\* An announce to the torrent disabled with a reason was answered with the
\* reason.
C20_Witness ==
    /\ pc = "responded"
    /\ MemberOf(req)[1] = InfoHashFromString(H4)
    /\ resp.kind = "failure"
    /\ resp.failure = "trumped"

\* C21: the reaper removes exactly the peers whose last accepted announce is
\* older than ReaperInterval: at every walk a member that announced within
\* the interval stays a member, and a member that did not is removed.
C21_ReaperRemovesOnlySilentPeers ==
    [][ Reap =>
          \A m \in Members :
             IsMember(swarm, m) =>
                (IsMember(swarm', m) <=> now - lastAt[m] <= ReaperInterval) ]_vars

\* The answer of GetPeers(ih, limit) lists the peer.
Lists(ih, id) ==
    rPc = "done" /\ rIh = ih /\ \E i \in 1..Len(rOut) : rOut[i].PeerID = id

\* C22: when GetPeers(ih, limit) is called and returns again and again, every
\* peer that is stored under ih is eventually in one of the answers, also
\* when the swarm has more peers than limit.
C22_EveryLivePeerEventuallyReturned ==
    \A id \in StorePeerIDs :
       ([]<>(rPc = "done")) =>
          ((peerKey(InfoHashFromString(H1), id) \in DOMAIN rdb)
              ~> Lists(InfoHashFromString(H1), id))

\* Every handler has answered.
AllAnswered == \A h \in Handlers : cPc[h] = "done"

\* The client was new when the handlers started.
ClientWasNew == cStore # <<0>>

\* C24: when announces of a new client are served at the same time, each gets
\* its peer list, and the swarm index ends with one record of the client
\* whose Announces counts every one of them.
C24_FirstAnnouncesBothCounted ==
    AllAnswered /\ ClientWasNew =>
       /\ \A h \in Handlers : cResp[h] = msgOk
       /\ cStore # <<>>
       /\ cObjs[cStore[1]].Announces = MaxHandlers

\* The progress (Uploaded, Downloaded, Left) a record holds.
Progress(peer) == <<peer.Uploaded, peer.Downloaded, peer.Left>>

\* C25: when announces of a client that is in the swarm are served at the
\* same time, the record's Announces grows by their number, and its
\* Uploaded, Downloaded and Left end as the values of one of the requests.
C25_KnownPeerUpdatedAtomically ==
    AllAnswered /\ ~ClientWasNew =>
       /\ cObjs[0].Announces = 1 + MaxHandlers
       /\ \E h \in Handlers :
             Progress(cObjs[0]) = Progress(newAnnounce(RaceRequest(h)))

\* Every handler has updated the client's one record, the second's values last.
C25_Witness ==
    /\ AllAnswered
    /\ ~ClientWasNew
    /\ \A h \in Handlers : cResp[h] = msgOk
    /\ cObjs[0].Announces = 1 + MaxHandlers
    /\ Progress(cObjs[0]) = Progress(newAnnounce(RaceRequest(2)))

\* The hash of a peer written with AddPeer(ih, p) and then UpdatePeer(ih, q).
WrittenHash(ih, p, q) ==
    UpdatePeer(AddPeer(<<>>, ih, p).db, ih, q).db[peerKey(ih, p.PeerID)]

\* The peer those two calls were handed: p with the fields UpdatePeer writes
\* taken from q.
WrittenPeer(p, q) ==
    [p EXCEPT !.SpeedUP = q.SpeedUP, !.SpeedDN = q.SpeedDN,
              !.SpeedUPMax = q.SpeedUPMax, !.SpeedDNMax = q.SpeedDNMax,
              !.Uploaded = q.Uploaded, !.Downloaded = q.Downloaded,
              !.Left = q.Left, !.Announces = q.Announces,
              !.TotalTime = q.TotalTime, !.AnnounceLast = q.AnnounceLast,
              !.AnnounceFirst = q.AnnounceFirst, !.UpdatedOn = q.UpdatedOn]

\* Two peers with equal fields, their addresses equal as net.IP.Equal has it.
SamePeer(a, b) ==
    [a EXCEPT !.IP = IF IsIPv4(@) THEN To4(@) ELSE @]
       = [b EXCEPT !.IP = IF IsIPv4(@) THEN To4(@) ELSE @]

\* C26: the record GetPeers builds from the hash of a peer that was written
\* with AddPeer, or with AddPeer and then UpdatePeer, has the fields that
\* were written, SpeedUPMax and SpeedDNMax each as written.
C26_GetPeersReturnsWrittenFields ==
    [][ GetPeersRead =>
          \A p, q \in StorePeers :
             /\ p.PeerID = q.PeerID
             /\ rKeys[rI + 1] = peerKey(rIh, p.PeerID)
             /\ rKeys[rI + 1] \in DOMAIN rdb
             /\ rdb[rKeys[rI + 1]] = WrittenHash(rIh, p, q)
             => SamePeer(rOut'[rI + 1], WrittenPeer(p, q)) ]_vars

\* C27: an announce that is answered with a failure leaves the swarm index
\* and the torrent store as they were.
C27_FailureChangesNothing ==
    [][ AnnounceStep /\ resp'.kind = "failure" =>
          swarm' = swarm /\ torrents' = torrents ]_vars

\* A request was refused for its port while the torrent has a peer.
C27_Witness ==
    /\ pc = "responded"
    /\ resp.kind = "failure"
    /\ resp.failure = msgInvalidPort
    /\ Len(swarm[InfoHashFromString(H1)]) = 1

\* Request r with numwant set to text n, or left out for the empty text.
WithNumWant(r, n) == [r EXCEPT !.q = AddOpt(Without(@, "numwant"), "numwant", n)]

\* C28: what an accepted announce does to the swarm index and to the torrent
\* is decided by its event alone: the same request with any other numwant,
\* served in the same state, leaves the same swarm index, the same torrent
\* store and the same TotalCompleted on the handler's torrent.
C28_NumWantDoesNotDecideEvent ==
    [][ AnnounceStep /\ resp'.kind = "ok" =>
          \A n \in {<<>>, Dec(1), sStopped, sCompleted} :
             \A out \in announce(swarm, torrents, now, WithNumWant(req', n)) :
                /\ out.resp.kind = "ok"
                /\ out.swarm = swarm'
                /\ out.torrents = torrents'
                /\ out.tor.TotalCompleted = tor'.TotalCompleted ]_vars

====
